---- MODULE Spec2Model ----
(***************************************************************************)
(* Model of plotly_visualizations.py: a straight-line report generator.    *)
(* A run creates the output directory, reads the CSV, cleans Price, coerces *)
(* Rating and Reviews, writes up to six chart HTML files, walks the        *)
(* html/png pairs to export images, and prints the completion message.     *)
(* The output directory outlives a run, so the model chains runs.          *)
(***************************************************************************)
EXTENDS Integers, Sequences, FiniteSets, TLC

VARIABLES
    pc,         \* position of the current run in the script
    runs,       \* number of runs started so far
    dirExists,  \* the directory OUTDIR exists on disk
    files,      \* the files in OUTDIR: name -> number of the run that wrote it
    csv,        \* the dataset stored at CSV_PATH (column -> dtype), or Unreadable
    df,         \* the in-memory frame of the current run (column -> dtype)
    kaleido,    \* the image-rendering dependency is usable in the current run
    globs,      \* names bound in the module namespace by the current run
    written,    \* chart numbers whose write_html ran in the current run
    tried,      \* chart numbers for which the export loop entered its try block
    attempts,   \* png names handed to pio.write_image in the current run
    pngs,       \* png names written by the current run
    out,        \* lines printed to standard output by the current run
    err,        \* the exception that ended the current run, or "none"
    sameInput,  \* the current run reads the dataset the previous run read
    prevFiles,  \* the files in OUTDIR when the previous run ended
    prevEnd,    \* how the previous run ended: <<pc, err>>
    cell,       \* one value of the Price column (text, or NaN)
    dtypeObj,   \* the Price column holding cell has dtype object
    cleaned,    \* the value of cell after Price cleaning
    cleanSt,    \* position of the Price-cleaning check
    rows,       \* the rows <<Product Name, Reviews>> of a frame
    plotted,    \* the rows handed to px.bar
    topSt       \* position of the top-reviews check

vars == <<pc, runs, dirExists, files, csv, df, kaleido, globs, written, tried,
          attempts, pngs, out, err, sameInput, prevFiles, prevEnd,
          cell, dtypeObj, cleaned, cleanSt, rows, plotted, topSt>>

runVars == <<pc, runs, dirExists, files, csv, df, kaleido, globs, written, tried,
             attempts, pngs, out, err, sameInput, prevFiles, prevEnd>>
cleanVars == <<cell, dtypeObj, cleaned, cleanSt>>
topVars == <<rows, plotted, topSt>>

----------------------------------------------------------------------------
(* Bounds *)
MaxRuns == 2
MaxPriceLen == 6
MaxRows == 17

----------------------------------------------------------------------------
(* The dataset: columns and dtypes as pd.read_csv infers them *)

None == "None"
\* the file at CSV_PATH is missing or unreadable; no frame is loaded
Unreadable == [c \in {"Price", "Stock", "Rating", "Reviews", "Sub Category",
                       "Main Category", "Product Name"} |-> "unreadable"]
NoFrame == [c \in DOMAIN Unreadable |-> "unloaded"]

TextCols == {"Sub Category", "Main Category", "Product Name"}
CoercedCols == {"Rating", "Reviews"}
AllCols == {"Price", "Stock"} \cup CoercedCols \cup TextCols

\* a column is absent, holds text (dtype object) or holds numbers
Datasets ==
    {d \in [AllCols -> {"absent", "object", "number"}] :
        /\ \A c \in TextCols : d[c] # "number"
        /\ d["Stock"] # "object"}

Columns(d) == {c \in AllCols : d[c] # "absent"}

\* os.makedirs(OUTDIR, exist_ok=True) without exist_ok
MakeDirsStrict(exists) == IF exists THEN "FileExistsError" ELSE "ok"

\* os.makedirs(OUTDIR, exist_ok=True): an existing directory is not an error
exist_ok == TRUE
MakeDirs(exists) == IF exists /\ ~exist_ok THEN "FileExistsError" ELSE "ok"

\* pd.read_csv(CSV_PATH): a missing or unreadable file raises, uncaught
ReadCsv(input) == IF input = Unreadable THEN "FileNotFoundError" ELSE "ok"

\* lines 16-18: an object Price column is stripped and parsed to numbers
CleanPriceCol(d) ==
    IF d["Price"] = "object" THEN [d EXCEPT !["Price"] = "number"] ELSE d

\* lines 21-23: Rating and Reviews, when present, are parsed to numbers
CoerceCols(d) ==
    [c \in AllCols |->
        IF c \in CoercedCols /\ c \in Columns(d) THEN "number" ELSE d[c]]

\* df.select_dtypes(include=['number']).columns
NumCols(d) == {c \in AllCols : d[c] = "number"}

----------------------------------------------------------------------------
(* Output files.  A file name is its '_'-separated stem and its extension. *)

Charts == 1..6

Stem(i) ==
    CASE i = 1 -> <<"01", "price", "histogram">>
      [] i = 2 -> <<"02", "price", "by", "subcategory", "box">>
      [] i = 3 -> <<"03", "price", "vs", "rating", "scatter">>
      [] i = 4 -> <<"04", "top", "products", "by", "reviews">>
      [] i = 5 -> <<"05", "correlation", "heatmap">>
      [] i = 6 -> <<"06", "category", "treemap">>

\* the listing of an empty directory
EmptyDir == [n \in {} |-> 0]

\* os.path.exists(os.path.join(OUTDIR, name))
Exists(fs, name) == name \in DOMAIN fs

\* a write creates the file or replaces the one of that name
WriteFile(fs, name, rev) ==
    [n \in DOMAIN fs \cup {name} |-> IF n = name THEN rev ELSE fs[n]]

HtmlName(i) == [stem |-> Stem(i), ext |-> "html"]
PngName(i) == [stem |-> Stem(i), ext |-> "png"]

\* the names fig1 .. fig6 the chart steps assign their figures to
FigVar(i) ==
    CASE i = 1 -> "fig1" [] i = 2 -> "fig2" [] i = 3 -> "fig3"
      [] i = 4 -> "fig4" [] i = 5 -> "fig5" [] i = 6 -> "fig6"

\* the if-condition guarding chart step i
Gate(i, d) ==
    CASE i = 1 -> TRUE
      [] i = 2 -> "Sub Category" \in Columns(d)
      [] i = 3 -> {"Price", "Rating"} \subseteq Columns(d)
      [] i = 4 -> "Reviews" \in Columns(d) /\ "Product Name" \in Columns(d)
      [] i = 5 -> Cardinality(NumCols(d)) >= 2
      [] i = 6 -> "Main Category" \in Columns(d) /\ "Sub Category" \in Columns(d)

\* the columns the plotting call of chart step i names unconditionally;
\* plotly express raises ValueError for a name that is not a column
Uses(i) ==
    CASE i = 1 -> {"Price"}
      [] i = 2 -> {"Sub Category", "Price"}
      [] i = 3 -> {"Price", "Rating"}
      [] i = 4 -> {"Reviews", "Product Name"}
      [] i = 5 -> {}
      [] i = 6 -> {"Main Category", "Sub Category"}

----------------------------------------------------------------------------
(* Image export, lines 70-98 *)

\* varname = 'fig' + h.split('_')[0]
VarName(h) == "fig" \o h.stem[1]

\* globals().get(varname): the object bound to the name, or None
GlobalsGet(varname, g) == IF varname \in g THEN varname ELSE None

\* the figure loaded back from the HTML file (the route the comment on
\* line 87 mentions), whatever the run has bound
FigFromHtml(h, g) == "fig" \o h.stem[1]

\* the figure the export loop finds for the html name h (lines 91-92)
FigObj(h, g) == GlobalsGet(VarName(h), g)

\* pio.write_image(fig_obj, png_path, ...): raises without a usable kaleido
WriteImage(k) == IF k THEN "ok" ELSE "raise"

\* one iteration of the loop over html_png_pairs (lines 84-96).  st carries
\* the directory listing and the bookkeeping; escaped tells whether an
\* exception left the inner try (except Exception: pass lets none out)
ExportPair(i, st, g, k) ==
    IF ~Exists(st.files, HtmlName(i)) THEN st
    ELSE LET fig_obj == FigObj(HtmlName(i), g)
             s1 == [st EXCEPT !.tried = @ \cup {i}]
         IN  IF fig_obj = None THEN s1
             ELSE LET s2 == [s1 EXCEPT !.attempts = @ \cup {PngName(i)}]
                  IN  IF WriteImage(k) = "ok"
                      THEN [s2 EXCEPT !.files = WriteFile(@, PngName(i), st.rev),
                                      !.pngs = @ \cup {PngName(i)}]
                      ELSE [s2 EXCEPT !.escaped = FALSE]

RECURSIVE ExportLoop(_, _, _, _)
ExportLoop(i, st, g, k) ==
    IF i > 6 \/ st.escaped THEN st
    ELSE ExportLoop(i + 1, ExportPair(i, st, g, k), g, k)

RECURSIVE DirectLoop(_, _, _, _)
DirectLoop(i, st, w, k) ==
    IF i > 6 \/ st.uncaught THEN st
    ELSE IF i \notin w THEN DirectLoop(i + 1, st, w, k)
    ELSE IF k THEN DirectLoop(i + 1, [st EXCEPT !.files = WriteFile(@, PngName(i), st.rev),
                                                !.pngs = @ \cup {PngName(i)},
                                                !.tried = @ \cup {i},
                                                !.attempts = @ \cup {PngName(i)}], w, k)
    ELSE [st EXCEPT !.uncaught = TRUE, !.tried = @ \cup {i},
                    !.attempts = @ \cup {PngName(i)}]

ExportStart(fs, rev) ==
    [files |-> fs, rev |-> rev, tried |-> {}, attempts |-> {}, pngs |-> {},
     escaped |-> FALSE, warned |-> FALSE, uncaught |-> FALSE]

SAVE_PNG == TRUE

\* the export written without its try blocks, each figure of the run rendered
\* directly: a render error ends the run
ExportBlockNoTry(fs, rev, g, k) ==
    DirectLoop(1, ExportStart(fs, rev), {i \in Charts : FigVar(i) \in g}, k)

\* the whole block under SAVE_PNG (lines 71-98): the outer handler prints the
\* warning for whatever leaves the loop, so nothing is left uncaught
ExportBlock(fs, rev, g, k) ==
    IF ~SAVE_PNG THEN ExportStart(fs, rev)
    ELSE LET r == ExportLoop(1, ExportStart(fs, rev), g, k)
         IN  [r EXCEPT !.warned = r.escaped, !.uncaught = FALSE]

----------------------------------------------------------------------------
(* The run *)

RunInit ==
    /\ pc = "idle"
    /\ runs = 0
    /\ dirExists = FALSE
    /\ files = EmptyDir
    /\ csv = Unreadable
    /\ df = NoFrame
    /\ kaleido = FALSE
    /\ globs = {}
    /\ written = {}
    /\ tried = {}
    /\ attempts = {}
    /\ pngs = {}
    /\ out = <<>>
    /\ err = "none"
    /\ sameInput = FALSE
    /\ prevFiles = EmptyDir
    /\ prevEnd = <<"idle", "none">>

CleanIdle == cell = None /\ dtypeObj = FALSE /\ cleaned = None /\ cleanSt = "off"
TopIdle == rows = <<>> /\ plotted = <<>> /\ topSt = "off"

Init == RunInit /\ CleanIdle /\ TopIdle

Abort(e) == pc' = "aborted" /\ err' = e

\* lines 1-12 of a fresh process: the namespace is empty, the directory is
\* created, the dataset at CSV_PATH is read
StartRun ==
    /\ pc = "idle"
    /\ runs < MaxRuns
    /\ \E input \in (IF sameInput THEN {csv} ELSE Datasets \cup {Unreadable}) :
        /\ csv' = input
        /\ IF MakeDirs(dirExists) # "ok"
           THEN Abort(MakeDirs(dirExists)) /\ df' = NoFrame /\ UNCHANGED dirExists
           ELSE /\ dirExists' = TRUE
                /\ IF ReadCsv(input) # "ok"
                   THEN Abort(ReadCsv(input)) /\ df' = NoFrame
                   ELSE pc' = "clean" /\ err' = "none" /\ df' = input
    /\ runs' = runs + 1
    /\ UNCHANGED <<files, kaleido, globs, written, tried, attempts, pngs, out,
                   sameInput, prevFiles, prevEnd, cleanVars, topVars>>

\* lines 14-26: df['Price'] raises KeyError when the column is absent
Clean ==
    /\ pc = "clean"
    /\ IF "Price" \notin Columns(df)
       THEN Abort("KeyError") /\ UNCHANGED <<df, out>>
       ELSE /\ df' = CoerceCols(CleanPriceCol(df))
            /\ out' = Append(out, "rows")
            /\ pc' = "fig1"
            /\ UNCHANGED err
    /\ UNCHANGED <<runs, dirExists, files, csv, kaleido, globs, written, tried,
                   attempts, pngs, sameInput, prevFiles, prevEnd, cleanVars, topVars>>

\* chart step i: skipped when its gate is false, else the figure is built,
\* bound to fig<i> and written as HTML
ChartStep(i, next) ==
    /\ IF ~Gate(i, df)
       THEN pc' = next /\ UNCHANGED <<files, globs, written, err>>
       ELSE IF ~(Uses(i) \subseteq Columns(df))
       THEN Abort("ValueError") /\ UNCHANGED <<files, globs, written>>
       ELSE /\ globs' = globs \cup {FigVar(i)}
            /\ files' = WriteFile(files, HtmlName(i), runs)
            /\ written' = written \cup {i}
            /\ pc' = next
            /\ UNCHANGED err
    /\ UNCHANGED <<runs, dirExists, csv, df, kaleido, tried, attempts, pngs, out,
                   sameInput, prevFiles, prevEnd, cleanVars, topVars>>

Fig1 == pc = "fig1" /\ ChartStep(1, "fig2")
Fig2 == pc = "fig2" /\ ChartStep(2, "fig3")
Fig3 == pc = "fig3" /\ ChartStep(3, "fig4")
Fig4 == pc = "fig4" /\ ChartStep(4, "fig5")
Fig5 == pc = "fig5" /\ ChartStep(5, "fig6")
Fig6 == pc = "fig6" /\ ChartStep(6, "export")

\* lines 70-98
Export ==
    /\ pc = "export"
    /\ \E k \in BOOLEAN :
       LET r == ExportBlock(files, runs, globs, k)
       IN  /\ kaleido' = k
           /\ files' = r.files
           /\ tried' = r.tried
           /\ attempts' = r.attempts
           /\ pngs' = r.pngs
           /\ out' = IF r.warned THEN Append(out, "warn") ELSE out
           /\ IF r.uncaught THEN Abort("RenderError")
              ELSE pc' = "finish" /\ UNCHANGED err
    /\ UNCHANGED <<runs, dirExists, csv, df, globs, written,
                   sameInput, prevFiles, prevEnd, cleanVars, topVars>>

\* line 100
Finish ==
    /\ pc = "finish"
    /\ out' = Append(out, "done")
    /\ pc' = "done"
    /\ UNCHANGED <<runs, dirExists, files, csv, df, kaleido, globs, written, tried,
                   attempts, pngs, err, sameInput, prevFiles, prevEnd,
                   cleanVars, topVars>>

\* the process ends and its memory is gone; the directory stays.  The next
\* run finds either the same dataset at CSV_PATH or another one
Exit ==
    /\ pc \in {"done", "aborted"}
    /\ \E keep \in BOOLEAN :
        /\ sameInput' = keep
        /\ csv' = IF keep THEN csv ELSE Unreadable
    /\ prevFiles' = files
    /\ prevEnd' = <<pc, err>>
    /\ pc' = "idle"
    /\ err' = "none"
    /\ df' = NoFrame
    /\ kaleido' = FALSE
    /\ globs' = {} /\ written' = {} /\ tried' = {} /\ attempts' = {} /\ pngs' = {}
    /\ out' = <<>>
    /\ UNCHANGED <<runs, dirExists, files, cleanVars, topVars>>

Next == StartRun \/ Clean \/ Fig1 \/ Fig2 \/ Fig3 \/ Fig4 \/ Fig5 \/ Fig6
        \/ Export \/ Finish \/ Exit

Spec == Init /\ [][Next]_vars

----------------------------------------------------------------------------
(* Price cleaning, value by value (lines 16-18) *)

Digits == {"0", "1", "2", "3", "4", "5", "6", "7", "8", "9"}

DigitVal(c) ==
    CASE c = "0" -> 0 [] c = "1" -> 1 [] c = "2" -> 2 [] c = "3" -> 3
      [] c = "4" -> 4 [] c = "5" -> 5 [] c = "6" -> 6 [] c = "7" -> 7
      [] c = "8" -> 8 [] c = "9" -> 9

\* the values of a Price column: text or an empty cell (NaN) in an object
\* column, numbers or NaN in a numeric one
Text(s) == [kind |-> "text", chars |-> s, num |-> 0, scale |-> 0]
Number(n, sc) == [kind |-> "num", chars |-> <<>>, num |-> n, scale |-> sc]
NaN == [kind |-> "nan", chars |-> <<>>, num |-> 0, scale |-> 0]

\* Series.astype(str): text stays, an empty cell becomes the text 'nan'
AsTypeStr(v) == IF v.kind = "nan" THEN <<"n", "a", "n">> ELSE v.chars

\* str.replace(ch, '', regex=False): every occurrence of ch is removed
StrReplace(s, ch) == SelectSeq(s, LAMBDA c : c # ch)

\* line 17 with the second replace left out
StripCurrencyOnly(s) == StrReplace(s, "£")

\* line 17: the currency sign, then the thousands separators, are removed
StripPrice(s) == StrReplace(StrReplace(s, "£"), ",")

\* the text is a decimal numeral: digits with at most one point
IsNumeral(s) ==
    /\ \A i \in 1..Len(s) : s[i] \in Digits \cup {"."}
    /\ Len(SelectSeq(s, LAMBDA c : c = ".")) <= 1
    /\ \E i \in 1..Len(s) : s[i] \in Digits

RECURSIVE DigitsValue(_)
DigitsValue(s) ==
    IF s = <<>> THEN 0
    ELSE 10 * DigitsValue(SubSeq(s, 1, Len(s) - 1)) + DigitVal(s[Len(s)])

\* the number a decimal numeral denotes, as num / 10^scale
NumeralValue(s) ==
    LET point == {i \in 1..Len(s) : s[i] = "."}
    IN  Number(DigitsValue(SelectSeq(s, LAMBDA c : c \in Digits)),
               IF point = {} THEN 0 ELSE Len(s) - (CHOOSE i \in point : TRUE))

\* pd.to_numeric(text, errors=...): the number, NaN for the text 'nan', and
\* for anything else NaN under 'coerce', an exception under 'raise'
ToNumeric(s, errors) ==
    IF IsNumeral(s) THEN [value |-> NumeralValue(s), raised |-> FALSE]
    ELSE IF s = <<"n", "a", "n">> THEN [value |-> NaN, raised |-> FALSE]
    ELSE [value |-> NaN, raised |-> errors = "raise"]

\* lines 16-18 on one value: cleaned only when the column's dtype is object
CleanPrice(v, isObject) ==
    IF isObject
    THEN ToNumeric(StripPrice(AsTypeStr(v)), "coerce")
    ELSE [value |-> v, raised |-> FALSE]

ModelChars == {"£", ",", ".", "0", "1", "x"}

PriceTexts == UNION {[1..n -> ModelChars] : n \in 0..MaxPriceLen}

\* the two examples of the description
Example1 == <<"£", "1", "4", ".", "7", "0">>
Example2 == <<"£", "1", ",", "2", "3", "4", ".", "5", "0">>

CleanInit ==
    /\ cleanSt = "raw"
    /\ cleaned = NaN
    /\ \/ /\ dtypeObj = TRUE
          /\ cell \in {Text(s) : s \in PriceTexts \cup {Example1, Example2}} \cup {NaN}
       \/ /\ dtypeObj = FALSE
          /\ cell \in {Number(1470, 2), Number(5, 0), NaN}

InitClean == RunInit /\ CleanInit /\ TopIdle

CleanPriceStep ==
    /\ cleanSt = "raw"
    /\ LET r == CleanPrice(cell, dtypeObj)
       IN  /\ cleaned' = r.value
           /\ cleanSt' = IF r.raised THEN "aborted" ELSE "clean"
    /\ UNCHANGED <<cell, dtypeObj, runVars, topVars>>

NextClean == CleanPriceStep

SpecClean == InitClean /\ [][NextClean]_vars

(* Properties of Price cleaning *)

RECURSIVE Pow10(_)
Pow10(n) == IF n = 0 THEN 1 ELSE 10 * Pow10(n - 1)

SameNumber(a, b) ==
    /\ a.kind = "num" /\ b.kind = "num"
    /\ a.num * Pow10(b.scale) = b.num * Pow10(a.scale)

\* digits in groups of three set off by commas, or digits without commas
GroupedDigits(s) ==
    /\ Len(s) >= 1
    /\ \A i \in 1..Len(s) : s[i] \in Digits \cup {","}
    /\ \/ \A i \in 1..Len(s) : s[i] \in Digits
       \/ /\ s[1] \in Digits
          /\ \A i \in 1..Len(s) : (s[i] = ",") <=> ((Len(s) - i) % 4 = 3)

\* the currency sign, then grouped digits, then optionally a point and digits
IsCurrencyText(s) ==
    /\ Len(s) >= 2 /\ s[1] = "£"
    /\ LET body == SubSeq(s, 2, Len(s))
           point == {i \in 1..Len(body) : body[i] = "."}
       IN  IF point = {} THEN GroupedDigits(body)
           ELSE /\ Cardinality(point) = 1
                /\ LET d == CHOOSE i \in point : TRUE
                   IN  /\ GroupedDigits(SubSeq(body, 1, d - 1))
                       /\ d < Len(body)
                       /\ \A i \in (d + 1)..Len(body) : body[i] \in Digits

\* the number a currency text stands for, read left to right
RECURSIVE ReadAmount(_, _, _, _)
ReadAmount(s, i, acc, sc) ==
    IF i > Len(s) THEN Number(acc, IF sc < 0 THEN 0 ELSE sc)
    ELSE IF s[i] \in Digits
         THEN ReadAmount(s, i + 1, 10 * acc + DigitVal(s[i]),
                         IF sc < 0 THEN sc ELSE sc + 1)
    ELSE IF s[i] = "." THEN ReadAmount(s, i + 1, acc, 0)
    ELSE ReadAmount(s, i + 1, acc, sc)

CurrencyValue(s) == ReadAmount(s, 1, 0, -1)

\* what is left of a text is a numeral once the signs '£' and ',' are put
\* aside: only digits, those signs and at most one point, and some digit
NumeralApartFromSigns(s) ==
    /\ \A i \in 1..Len(s) : s[i] \in Digits \cup {"£", ",", "."}
    /\ Cardinality({i \in 1..Len(s) : s[i] = "."}) <= 1
    /\ \E i \in 1..Len(s) : s[i] \in Digits

\* C6 as stated: after cleaning, a currency-formatted Price text has become
\* its number, every other Price value has become missing, and cleaning did
\* not abort.
C6_NonCurrencyBecomesMissing ==
    cleanSt # "raw" =>
        /\ cleanSt = "clean"
        /\ IF cell.kind = "text" /\ IsCurrencyText(cell.chars)
           THEN SameNumber(cleaned, CurrencyValue(cell.chars))
           ELSE cleaned = NaN

\* C6 amended: after cleaning, a currency-formatted Price text has become its
\* number (the two examples included), a Price text has become missing
\* exactly when what is left without its '£' and ',' signs is no numeral, an
\* empty cell stays missing, a value of a numeric Price column is left as
\* read, and cleaning did not abort.
C6_UnparseableBecomesMissing ==
    cleanSt # "raw" =>
        /\ cleanSt = "clean"
        /\ (cell.kind = "text" /\ IsCurrencyText(cell.chars))
              => SameNumber(cleaned, CurrencyValue(cell.chars))
        /\ cell = Text(Example1) => SameNumber(cleaned, Number(1470, 2))
        /\ cell = Text(Example2) => SameNumber(cleaned, Number(123450, 2))
        /\ cell.kind = "text" =>
              (cleaned = NaN <=> ~NumeralApartFromSigns(cell.chars))
        /\ cell.kind = "nan" => cleaned = NaN
        /\ ~dtypeObj => cleaned = cell

\* C6 witness: a currency text with a thousands comma has been cleaned to a
\* number, as has a text without any currency sign.
C6_Witness ==
    /\ cleanSt = "clean" /\ cell.kind = "text" /\ cleaned.kind = "num"
    /\ \/ /\ IsCurrencyText(cell.chars)
          /\ \E i \in 1..Len(cell.chars) : cell.chars[i] = ","
          /\ cleaned.num >= 1000
       \/ cell = Text(Example2)

----------------------------------------------------------------------------
(* Top products by reviews (lines 50-56) *)

\* df.nlargest(15, ...)
TopN == 15

\* a row of df[['Product Name', 'Reviews']]; nan marks a missing Reviews
Row(name, reviews, nan) ==
    [name |-> name, reviews |-> IF nan THEN 0 ELSE reviews, nan |-> nan]

\* row i comes before row j in descending Reviews order: larger first, ties
\* in frame order (keep='first'), missing values last
Before(d, i, j) ==
    IF d[i].nan # d[j].nan THEN d[j].nan
    ELSE IF d[i].nan THEN i < j
    ELSE d[i].reviews > d[j].reviews \/ (d[i].reviews = d[j].reviews /\ i < j)

\* the rows of d in descending Reviews order
SortDescending(d) ==
    LET rank == [i \in 1..Len(d) |->
                    1 + Cardinality({j \in 1..Len(d) : j # i /\ Before(d, j, i)})]
    IN  [r \in 1..Len(d) |-> d[CHOOSE i \in 1..Len(d) : rank[i] = r]]

FirstRows(d, n) == SubSeq(d, 1, IF n < Len(d) THEN n ELSE Len(d))

\* DataFrame.nlargest(n, 'Reviews'): the first n rows in descending order
NLargest(n, d) == FirstRows(SortDescending(d), n)

\* DataFrame.drop_duplicates(): the first occurrence of every row is kept
RECURSIVE DropDuplicates(_)
DropDuplicates(d) ==
    IF d = <<>> THEN <<>>
    ELSE LET init == SubSeq(d, 1, Len(d) - 1)
             last == d[Len(d)]
         IN  IF \E i \in 1..Len(init) : init[i] = last
             THEN DropDuplicates(init)
             ELSE Append(DropDuplicates(init), last)

\* top_reviews handed to px.bar as it is
Unreversed(d) == d

\* top_reviews[::-1]
Reverse(d) == [i \in 1..Len(d) |-> d[Len(d) + 1 - i]]

\* line 52
TopReviews(d) == DropDuplicates(NLargest(TopN, d))

\* the frames checked: a base pattern of names and review counts over len
\* rows, with one row optionally replaced by a copy of the first, the middle
\* or the last row, or given a missing Reviews value
NamePatterns == {"distinct", "same", "pairs", "fives"}
ReviewPatterns == {"ascending", "descending", "constant", "threes", "gaps"}

NameAt(m, i) ==
    CASE m = "distinct" -> i
      [] m = "same" -> 1
      [] m = "pairs" -> i % 2
      [] m = "fives" -> i % 5

ReviewsAt(k, i) ==
    CASE k = "ascending" -> Row(0, i, FALSE)
      [] k = "descending" -> Row(0, 100 - i, FALSE)
      [] k = "constant" -> Row(0, 7, FALSE)
      [] k = "threes" -> Row(0, i % 3, FALSE)
      [] k = "gaps" -> Row(0, (7 * i) % 5, i % 4 = 0)

BaseFrame(len, m, k) ==
    [i \in 1..len |-> Row(NameAt(m, i), ReviewsAt(k, i).reviews, ReviewsAt(k, i).nan)]

\* base with row p replaced by a copy of row q, or by itself without Reviews
Variant(base, p, q) ==
    IF p = 0 THEN base
    ELSE IF q = 0 THEN [base EXCEPT ![p] = Row(base[p].name, 0, TRUE)]
    ELSE [base EXCEPT ![p] = base[q]]

TopInit ==
    /\ \E len \in 0..MaxRows, m \in NamePatterns, k \in ReviewPatterns :
          \E p \in 0..len, q \in {0, 1, (len + 1) \div 2, len} :
              rows = Variant(BaseFrame(len, m, k), p, q)
    /\ plotted = <<>>
    /\ topSt = "raw"

InitTop == RunInit /\ CleanIdle /\ TopInit

\* lines 52-53: the rows given to px.bar
TopReviewsStep ==
    /\ topSt = "raw"
    /\ plotted' = Reverse(TopReviews(rows))
    /\ topSt' = "done"
    /\ UNCHANGED <<rows, runVars, cleanVars>>

NextTop == TopReviewsStep

SpecTop == InitTop /\ [][NextTop]_vars

(* Properties of the top-reviews rows *)

\* row r has no larger Reviews value than row p (a missing value is smallest)
NotLarger(r, p) == r.nan \/ (~p.nan /\ r.reviews <= p.reviews)

\* C7: the rows plotted in the top-reviews bar chart are at most 15, are
\* pairwise distinct (Product Name, Reviews) pairs, are rows of the frame of
\* which no row left out has a larger Reviews value, and are in ascending
\* Reviews order with the largest review count of the frame in the last row.
C7_TopReviewsRows ==
    topSt = "done" =>
        /\ Len(plotted) <= 15
        /\ \A i, j \in 1..Len(plotted) : i # j => plotted[i] # plotted[j]
        /\ \A i \in 1..Len(plotted) :
              /\ \E j \in 1..Len(rows) : rows[j] = plotted[i]
              /\ \A j \in 1..Len(rows) :
                    (\A l \in 1..Len(plotted) : plotted[l] # rows[j])
                        => NotLarger(rows[j], plotted[i])
        /\ \A i, j \in 1..Len(plotted) : i < j => NotLarger(plotted[i], plotted[j])
        /\ rows # <<>> =>
              /\ plotted # <<>>
              /\ \A j \in 1..Len(rows) : NotLarger(rows[j], plotted[Len(plotted)])

\* C7 witness: a frame of more than 15 rows whose 15 largest hold a repeated
\* pair, so that fewer than 15 and more than one row are plotted, with the
\* rows differing in Reviews and some row of the frame left out.
C7_Witness ==
    /\ topSt = "done"
    /\ Len(rows) > 15
    /\ Len(plotted) > 1 /\ Len(plotted) < 15
    /\ plotted[1].reviews < plotted[Len(plotted)].reviews
    /\ \E j \in 1..Len(rows) : \A l \in 1..Len(plotted) : plotted[l] # rows[j]

----------------------------------------------------------------------------
(* Properties of a run *)

Terminal == pc \in {"done", "aborted"}
HasHtml(i) == Exists(files, HtmlName(i))
PrintedBefore(a, b) ==
    \E j, l \in 1..Len(out) : j < l /\ out[j] = a /\ out[l] = b

\* the columns the description counts as numeric after cleaning: Price,
\* Rating and Reviews when present, and any column read as numbers
CountedNumeric(d) ==
    {c \in AllCols : d[c] = "number"
                     \/ (c \in {"Price", "Rating", "Reviews"} /\ d[c] # "absent")}

\* the columns the description gives chart i as its requirement
Required(i, d) ==
    CASE i = 1 -> "Price" \in Columns(d)
      [] i = 2 -> {"Price", "Sub Category"} \subseteq Columns(d)
      [] i = 3 -> {"Price", "Rating"} \subseteq Columns(d)
      [] i = 4 -> {"Reviews", "Product Name"} \subseteq Columns(d)
      [] i = 5 -> Cardinality(CountedNumeric(d)) >= 2
      [] i = 6 -> {"Main Category", "Sub Category"} \subseteq Columns(d)

\* C1: for every readable dataset, whatever subset of the six columns it has,
\* the run reaches the completion message: a run ends aborted only when the
\* dataset could not be read, never because a column is absent.
C1_MissingColumnNeverAborts ==
    pc = "aborted" => err = "FileNotFoundError"

\* C2: when a run is complete, every chart whose HTML it wrote had its figure
\* found by the export step and write_image invoked with the matching PNG path.
C2_EveryWrittenChartIsRendered ==
    pc = "done" =>
        \A i \in written :
            /\ FigObj(HtmlName(i), globs) # None
            /\ PngName(i) \in attempts

\* C3: a failing or unavailable renderer never ends the run: no run ends on a
\* render error, a run past the export step still has every HTML file it
\* wrote, as it wrote it, a run without the renderer writes no PNG, and a
\* completed run has printed the completion message last.
C3_RenderFailureIsNotFatal ==
    /\ err # "RenderError"
    /\ pc \in {"finish", "done"} =>
          /\ \A i \in written : HasHtml(i) /\ files[HtmlName(i)] = runs
          /\ ~kaleido => pngs = {}
    /\ pc = "done" => out # <<>> /\ out[Len(out)] = "done"

\* C3 witness: a run completed without the renderer, with HTML files written
\* and no PNG among the files of the run.
C3_Witness ==
    /\ pc = "done" /\ ~kaleido
    /\ written # {} /\ \A i \in written : HasHtml(i)
    /\ pngs = {}
    /\ out[Len(out)] = "done"

C5_AbsentColumnsSuppressOnlyTheirChart ==
    (Terminal /\ runs = 1 /\ err # "FileNotFoundError") =>
        /\ "Sub Category" \notin Columns(csv) => ~HasHtml(2) /\ ~HasHtml(6)
        /\ \A i \in Charts : Required(i, csv) => HasHtml(i)

\* C8: once a run has ended on a dataset that was read, it has written the
\* correlation heatmap exactly when the dataset has at least two numeric
\* columns after cleaning, and with fewer the run went on to completion.
C8_HeatmapIffTwoNumericColumns ==
    (Terminal /\ err # "FileNotFoundError") =>
        /\ 5 \in written <=> Cardinality(CountedNumeric(csv)) >= 2
        /\ Cardinality(CountedNumeric(csv)) < 2 => pc = "done"

\* C9: when a run on the dataset of the previous run has ended, it ended the
\* way the previous run did and not on the existing directory, the directory
\* holds the same file names as after the previous run, and each file the
\* run wrote holds what this run wrote.
C9_RerunIsIdempotent ==
    (Terminal /\ sameInput) =>
        /\ DOMAIN files = DOMAIN prevFiles
        /\ <<pc, err>> = prevEnd
        /\ err # "FileExistsError"
        /\ \A i \in written : files[HtmlName(i)] = runs

\* C9 witness: a second run on the same dataset has completed and has
\* replaced the HTML files of the first.
C9_Witness ==
    /\ pc = "done" /\ sameInput /\ runs >= 2
    /\ written # {}
    /\ \A i \in written : HtmlName(i) \in DOMAIN prevFiles /\ prevFiles[HtmlName(i)] < runs

\* C10: in every run of a sequence sharing the directory, a PNG is written
\* only for a chart whose figure this run generated; an HTML file left by an
\* earlier run passes the file-exists check without a PNG being written for
\* it, and the run does not fail in the export step.
C10_StaleHtmlIsNeverRendered ==
    /\ \A i \in Charts : PngName(i) \in pngs => i \in written
    /\ \A i \in tried \ written : PngName(i) \notin attempts
    /\ err # "RenderError"
    /\ pc = "export" => \A i \in Charts : FigVar(i) \in globs <=> i \in written

\* C10 witness: a completed run whose export loop found the HTML file of a
\* chart that this run skipped and an earlier run wrote.
C10_Witness ==
    /\ pc = "done"
    /\ \E i \in tried : i \notin written /\ files[HtmlName(i)] < runs

====
